---- MODULE Spec2Model ----
(***************************************************************************)
(* check-broken-packages (src/check-broken-packages/src/main.rs).          *)
(*                                                                         *)
(* Text is modelled as a sequence of atoms: an atom is one character       *)
(* (" ", "\t", a digit, ".", "-", a letter) or one fixed word of the       *)
(* tools' output ("=>", "not", "found", "/usr/lib/python", ...).           *)
(***************************************************************************)
EXTENDS Integers, Sequences, FiniteSets, Bags, TLC

----------------------------------------------------------------------------
(* Bounds of the model *)

MaxLines == 2
MaxDirs == 3
MaxPackages == 2
MaxExecs == 2
MaxCpu == 2

----------------------------------------------------------------------------
(* Text helpers: the std::str operations the program uses *)

Min(S) == CHOOSE x \in S : \A y \in S : x <= y

WhiteSpace == {" ", "\t"}

\* str::ends_with
EndsWith(s, suffix) ==
    /\ Len(s) >= Len(suffix)
    /\ SubSeq(s, Len(s) - Len(suffix) + 1, Len(s)) = suffix

\* str::starts_with
StartsWith(s, prefix) ==
    /\ Len(s) >= Len(prefix)
    /\ SubSeq(s, 1, Len(prefix)) = prefix

\* str::trim_start
RECURSIVE TrimStart(_)
TrimStart(s) ==
    IF s # <<>> /\ Head(s) \in WhiteSpace THEN TrimStart(Tail(s)) ELSE s

\* str::split(sep).collect(): the pieces between the separators, at least one
RECURSIVE Split(_, _)
Split(s, sep) ==
    LET idx == {i \in 1..Len(s) : s[i] = sep}
    IN  IF idx = {} THEN <<s>>
        ELSE <<SubSeq(s, 1, Min(idx) - 1)>> \o Split(SubSeq(s, Min(idx) + 1, Len(s)), sep)

----------------------------------------------------------------------------
(* Dependency Checker *)

\* the literal "=> not found"
NotFoundMarker == <<"=>", " ", "not", " ", "found">>

\* the closure of main.rs:187 with split(' ') replaced by a plain copy of the line
MutLibOfLine(l) == TrimStart(l)

\* main.rs:187: l.split(' ').next().unwrap().trim_start()
LibOfLine(l) == TrimStart(Split(l, " ")[1])

\* main.rs:181 left out: the lines of ldd are read whatever its exit status
MutGetMissingDependencies(output) ==
    IF ~output.spawned THEN [panicked |-> TRUE, value |-> <<>>]
    ELSE LET found == SelectSeq(output.lines, LAMBDA l : EndsWith(l, NotFoundMarker))
         IN  [panicked |-> FALSE, value |-> [i \in 1..Len(found) |-> LibOfLine(found[i])]]

\* get_missing_dependencies, on the outcome of running ldd:
\* output.spawned is FALSE when Command::output() returned Err (unwrap panics),
\* output.success is status.success(), output.lines is stdout.lines().
\* Result: [panicked |-> BOOLEAN, value |-> the VecDeque returned]
get_missing_dependencies(output) ==
    IF ~output.spawned THEN [panicked |-> TRUE, value |-> <<>>]
    ELSE IF output.success
         THEN LET found == SelectSeq(output.lines,
                                     LAMBDA l : EndsWith(l, NotFoundMarker))
              IN  [panicked |-> FALSE,
                   value |-> [i \in 1..Len(found) |-> LibOfLine(found[i])]]
         ELSE [panicked |-> FALSE, value |-> <<>>]

----------------------------------------------------------------------------
(* Python Mismatch Detector *)

Digits == <<"0", "1", "2", "3", "4", "5", "6", "7", "8", "9">>

DigitSet == {Digits[i] : i \in 1..10}

DigitVal(c) == (CHOOSE i \in 1..10 : Digits[i] = c) - 1

RECURSIVE DecVal(_)
DecVal(s) == IF s = <<>> THEN 0 ELSE 10 * DecVal(SubSeq(s, 1, Len(s) - 1)) + DigitVal(s[Len(s)])

\* u8::from_str: an optional "+", then one or more digits, value at most 255;
\* -1 stands for Err
U8FromStr(s) ==
    LET d == IF s # <<>> /\ Head(s) = "+" THEN Tail(s) ELSE s
    IN  IF d = <<>> \/ \E i \in 1..Len(d) : d[i] \notin DigitSet THEN -1
        ELSE IF DecVal(d) > 255 THEN -1
        ELSE DecVal(d)

\* Display of a u8 ("{}")
RECURSIVE FormatU8(_)
FormatU8(n) == IF n < 10 THEN <<Digits[n + 1]>> ELSE FormatU8(n \div 10) \o <<Digits[(n % 10) + 1]>>

\* get_python_version, on the outcome of `pacman -Qi python`:
\* info.ok is FALSE when the command could not run or exited non-zero,
\* info.has_version is FALSE when no line starts with "Version" or that line
\* has no ':', info.version is the text after the first ':' of that line.
get_python_version(info) ==
    LET Panic == [panicked |-> TRUE, value |-> <<>>]
    IN  IF ~info.ok \/ ~info.has_version THEN Panic
        ELSE
        LET version_str == TrimStart(info.version)
            dot == Split(version_str, ".")
            major == U8FromStr(dot[1])
        IN  IF major = -1 \/ Len(dot) < 2 THEN Panic
            ELSE IF U8FromStr(dot[2]) = -1 \/ Len(dot) < 3 THEN Panic
            ELSE
            LET dash == Split(dot[3], "-")
            IN  IF U8FromStr(dash[1]) = -1 \/ Len(dash) < 2 THEN Panic
                ELSE IF U8FromStr(dash[2]) = -1 THEN Panic
                ELSE [panicked |-> FALSE,
                      value |-> [major |-> major,
                                 minor |-> U8FromStr(dot[2]),
                                 release |-> U8FromStr(dash[1]),
                                 package |-> U8FromStr(dash[2])]]

\* get_package_owning_path, on the outcome of `pacman -Qoq path`
get_package_owning_path(owner_query) ==
    IF ~owner_query.ok THEN [panicked |-> TRUE, value |-> <<>>]
    ELSE [panicked |-> FALSE, value |-> owner_query.lines]

LibPython == "/usr/lib/python"

\* byte order of the atoms that follow "/usr/lib/python" in a path
AtomRank(c) == CASE c = "-" -> 45 [] c = "." -> 46 [] c \in DigitSet -> 48 + DigitVal(c)
                 [] OTHER -> 97

RECURSIVE PathLess(_, _)
PathLess(a, b) ==
    IF a = <<>> THEN b # <<>>
    ELSE IF b = <<>> THEN FALSE
    ELSE IF Head(a) = Head(b) THEN PathLess(Tail(a), Tail(b))
    ELSE AtomRank(Head(a)) < AtomRank(Head(b))

RECURSIVE SortPaths(_)
SortPaths(S) ==
    IF S = {} THEN <<>>
    ELSE LET m == CHOOSE x \in S : \A y \in S \ {x} : PathLess(x, y)
         IN  <<m>> \o SortPaths(S \ {m})

\* glob("/usr/lib/python{major}*"): the entries of /usr/lib the pattern matches,
\* in the order of their names
glob(fs, major) ==
    SortPaths({d \in fs : StartsWith(d, <<LibPython>> \o FormatU8(major))})

\* main.rs:111: format!("/usr/lib/python{}.{}", major, minor)
current_python_dir(v) == <<LibPython>> \o FormatU8(v.major) \o <<".">> \o FormatU8(v.minor)

\* the test of main.rs:125 taken as a prefix test
MutIsOtherDir(python_dir, current) == ~StartsWith(python_dir, current)

\* main.rs:125: python_dir != current_python_dir
IsOtherDir(python_dir, current) == python_dir # current

\* main.rs:127-132 without the contains() test
RECURSIVE MutPushCouples(_, _, _)
MutPushCouples(packages, dir_packages, python_dir) ==
    IF dir_packages = <<>> THEN packages
    ELSE MutPushCouples(Append(packages, <<Head(dir_packages), python_dir>>),
                        Tail(dir_packages), python_dir)

\* main.rs:127-132: push each (package, python_dir) not yet in packages
RECURSIVE PushCouples(_, _, _)
PushCouples(packages, dir_packages, python_dir) ==
    IF dir_packages = <<>> THEN packages
    ELSE LET couple == <<Head(dir_packages), python_dir>>
             contains == \E i \in 1..Len(packages) : packages[i] = couple
         IN  PushCouples(IF contains THEN packages ELSE Append(packages, couple),
                         Tail(dir_packages), python_dir)

\* the for loop of get_broken_python_packages over the glob entries
RECURSIVE BrokenLoop(_, _, _, _)
BrokenLoop(entries, packages, current, owner_db) ==
    IF entries = <<>> THEN [panicked |-> FALSE, value |-> packages]
    ELSE LET python_dir == Head(entries)
         IN  IF IsOtherDir(python_dir, current)
             THEN LET dir_packages == get_package_owning_path(owner_db[python_dir])
                  IN  IF dir_packages.panicked THEN [panicked |-> TRUE, value |-> <<>>]
                      ELSE BrokenLoop(Tail(entries),
                                      PushCouples(packages, dir_packages.value, python_dir),
                                      current, owner_db)
             ELSE BrokenLoop(Tail(entries), packages, current, owner_db)

\* get_broken_python_packages on the file system (the entries of /usr/lib) and
\* the catalog's answers to the owner queries
get_broken_python_packages(current_python_version, fs, owner_db) ==
    BrokenLoop(glob(fs, current_python_version.major), <<>>,
               current_python_dir(current_python_version), owner_db)

----------------------------------------------------------------------------
(* Package Database Accessor and Executable File Enumerator *)

\* get_aur_packages, on the outcome of `pacman -Qqm`
get_aur_packages(listing) ==
    IF ~listing.ok THEN [panicked |-> TRUE, value |-> <<>>]
    ELSE [panicked |-> FALSE, value |-> listing.lines]

\* mode & 0o111 != 0
HasExecBit(mode) ==
    \/ mode % 2 = 1
    \/ (mode \div 8) % 2 = 1
    \/ (mode \div 64) % 2 = 1

\* the for loop of get_package_executable_files; metadata[path].exists is
\* FALSE when fs::metadata returns Err
RECURSIVE ExecFilesLoop(_, _, _)
ExecFilesLoop(lines, metadata, files) ==
    IF lines = <<>> THEN [panicked |-> FALSE, value |-> files]
    ELSE LET pieces == Split(Head(lines), " ")
         IN  IF Len(pieces) < 2 THEN [panicked |-> TRUE, value |-> <<>>]
             ELSE LET path == pieces[2]
                      m == metadata[path]
                  IN  IF ~m.exists THEN ExecFilesLoop(Tail(lines), metadata, files)
                      ELSE IF m.is_file /\ HasExecBit(m.mode)
                           THEN ExecFilesLoop(Tail(lines), metadata, Append(files, path))
                           ELSE ExecFilesLoop(Tail(lines), metadata, files)

\* get_package_executable_files, on the outcome of `pacman -Ql package`
\* (query.ok, query.lines) and the metadata of the paths it lists
get_package_executable_files(query) ==
    IF ~query.ok THEN [panicked |-> TRUE, value |-> <<>>]
    ELSE ExecFilesLoop(query.lines, query.metadata, <<>>)

----------------------------------------------------------------------------
(* The host system the scan can meet *)

PackageNames == << <<"pkg1">>, <<"pkg2">>, <<"pkg3">> >>

\* the executable files a package can own
ExecPaths(package) ==
    CASE package = <<"pkg1">> -> << <<"/usr/bin/a1">>, <<"/usr/bin/a2">>, <<"/usr/bin/a3">> >>
      [] package = <<"pkg2">> -> << <<"/usr/bin/b1">>, <<"/usr/bin/b2">>, <<"/usr/bin/b3">> >>
      [] package = <<"pkg3">> -> << <<"/usr/bin/c1">>, <<"/usr/bin/c2">>, <<"/usr/bin/c3">> >>

\* a directory every package owns
DirPath == <<"/usr/bin/">>

\* outcomes of `pacman -Qqm`: a failure, or up to MaxPackages names
Listings ==
    {[ok |-> FALSE, lines |-> <<>>]} \cup
    {[ok |-> TRUE, lines |-> SubSeq(PackageNames, 1, n)] : n \in 0..MaxPackages}

\* outcomes of `pacman -Ql package`: a failure, or a manifest that lists one
\* directory and k executable regular files (mode 0o755)
Manifests(package) ==
    {[ok |-> FALSE, lines |-> <<>>, metadata |-> <<>>]} \cup
    {[ok |-> TRUE,
      lines |-> <<package \o <<" ">> \o DirPath>> \o
                [i \in 1..k |-> package \o <<" ">> \o ExecPaths(package)[i]],
      metadata |-> [path \in {DirPath} \cup {ExecPaths(package)[i] : i \in 1..k} |->
                       [exists |-> TRUE, is_file |-> path # DirPath, mode |-> 493]]]
        : k \in 0..MaxExecs}

\* lines of ldd: "\tlib => not found" and "\tlib => /usr/lib/lib (0x7f)"
NotFoundLine(lib) == <<"\t", lib, " ">> \o NotFoundMarker

ResolvedLine(lib) == <<"\t", lib, " ", "=>", " ", "/usr/lib/", lib, " ", "(0x7f)">>

\* outcomes of `ldd exec_file` met by the pipeline: ldd cannot be run, a
\* non-zero exit, a run that reports the same missing library twice
LddOutputs ==
    { [spawned |-> FALSE, success |-> FALSE, lines |-> <<>>],
      [spawned |-> TRUE, success |-> FALSE, lines |-> <<NotFoundLine("libx")>>],
      [spawned |-> TRUE, success |-> TRUE,
       lines |-> <<NotFoundLine("libx"), ResolvedLine("libc"), NotFoundLine("libx")>>] }

\* a path of /usr/lib: "/usr/lib/python" and what follows it
PyDir(tail) == <<LibPython>> \o tail

\* the systems the Python Mismatch Detector meets in a scan: the outcome of
\* `pacman -Qi python`, the entries of /usr/lib, the outcome of `pacman -Qoq`
\* on each of them
PipelinePyEnvs ==
    LET fs == {PyDir(<<"3", ".", "8">>), PyDir(<<"3", ".", "9">>)}
        ok_db == [d \in fs |-> [ok |-> TRUE, lines |-> << <<"pkg1">>, <<"pkg1">> >>]]
        bad_db == [d \in fs |-> [ok |-> FALSE, lines |-> <<>>]]
        v == <<" ", "3", ".", "9", ".", "7", "-", "2">>
        bad_v == <<" ", "3", ".", "9">>
    IN  { [info |-> [ok |-> FALSE, has_version |-> FALSE, version |-> <<>>],
           fs |-> fs, owner_db |-> ok_db],
          [info |-> [ok |-> TRUE, has_version |-> TRUE, version |-> bad_v],
           fs |-> fs, owner_db |-> ok_db],
          [info |-> [ok |-> TRUE, has_version |-> TRUE, version |-> v],
           fs |-> fs, owner_db |-> bad_db],
          [info |-> [ok |-> TRUE, has_version |-> TRUE, version |-> v],
           fs |-> fs, owner_db |-> ok_db] }

----------------------------------------------------------------------------
(* State *)

VARIABLES
    mainPc,             \* position of the controlling thread in main
    cpu_count,          \* num_cpus::get()
    aur_packages,       \* Vec<String> returned by get_aur_packages
    next_package,       \* index of the next name the loop of main.rs:301 sends
    outer_panicked,     \* the closure of the outer scope is unwinding
    pyPc,               \* Python Mismatch Detector thread
    python_host,        \* what the detector's queries answered, once it has run
    python_broken_packages, \* channel of main.rs:201
    broken_python_packages, \* what main received from it (main.rs:322)
    package_chan,       \* channel of main.rs:266
    exec_files_chan,    \* channel of main.rs:232
    missing_deps_chan,  \* channel of main.rs:228
    progress,           \* ProgressBar: len, pos, cleared
    stageA,             \* package name to executable files workers
    stageB,             \* executable files to missing deps workers
    stdout,             \* the lines printed
    pacman_Ql,          \* the answers `pacman -Ql` gave, by package
    ldd,                \* the answers `ldd` gave, by executable path
    hist,               \* per package: times received, items sent and probed, increments
    call                \* a function called on its own: argument and result

vars == <<mainPc, cpu_count, aur_packages, next_package, outer_panicked, pyPc, python_host,
          python_broken_packages, broken_python_packages, package_chan, exec_files_chan,
          missing_deps_chan, progress, stageA, stageB, stdout, pacman_Ql, ldd, hist, call>>

mainVars == <<mainPc, cpu_count, aur_packages, next_package, outer_panicked,
              broken_python_packages, call>>

pyVars == <<pyPc, python_broken_packages, python_host>>

envVars == <<pacman_Ql, ldd>>

AllPackageNames == {PackageNames[i] : i \in 1..Len(PackageNames)}

\* a crossbeam unbounded channel: the messages queued and the number of
\* Sender and Receiver handles alive
NoChannel == [queue |-> <<>>, senders |-> 0, receivers |-> 0]

\* crossbeam::unbounded(): one Sender, one Receiver
Unbounded == [queue |-> <<>>, senders |-> 1, receivers |-> 1]

\* Sender::send: Err when every receiver is dropped, else the message is queued
SendOk(chan) == chan.receivers > 0

\* a recv that gives up as soon as the channel is empty
MutRecvErr(chan) == chan.queue = <<>>

\* Receiver::recv returns Err: the channel is empty and every sender dropped
\* (it blocks while the channel is empty and a sender is alive)
RecvErr(chan) == chan.queue = <<>> /\ chan.senders = 0

\* the process has neither returned from main nor died of a panic in main
Running == mainPc \notin {"exit0", "aborted"}

Gone(worker) == worker.pc \in {"exited", "panicked"}

\* a scope whose thread::Result is dropped instead of unwrapped
MutAnyPanicked(pool) == FALSE

\* thread::Result of a scope: Err if a thread of the pool panicked
AnyPanicked(pool) == \E w \in DOMAIN pool : pool[w].pc = "panicked"

InitPipeline ==
    /\ mainPc = "start"
    /\ cpu_count = 0
    /\ aur_packages = <<>>
    /\ next_package = 1
    /\ outer_panicked = FALSE
    /\ pyPc = "unspawned"
    /\ python_host = <<>>
    /\ python_broken_packages = NoChannel
    /\ broken_python_packages = <<>>
    /\ package_chan = NoChannel
    /\ exec_files_chan = NoChannel
    /\ missing_deps_chan = NoChannel
    /\ progress = [len |-> 0, pos |-> 0, cleared |-> FALSE]
    /\ stageA = <<>>
    /\ stageB = <<>>
    /\ stdout = <<>>
    /\ pacman_Ql = <<>>
    /\ ldd = <<>>
    /\ hist = [n \in AllPackageNames |->
                  [received |-> 0, sent |-> <<>>, probed |-> <<>>, incA |-> 0,
                   incB |-> <<>>]]

NoCall == [fn |-> "none"]

Init ==
    /\ InitPipeline
    /\ call = NoCall

----------------------------------------------------------------------------
(* Python Mismatch Detector thread, main.rs:203-211 *)

\* the closure, on the system env: a panic drops the Sender, a result is sent
\* (main holds the Receiver, so the unwrap of the send cannot fail) and the
\* Sender dropped
PyThreadOn(env) ==
    LET current_python_version == get_python_version(env.info)
        broken == get_broken_python_packages(current_python_version.value, env.fs,
                                             env.owner_db)
    IN  /\ python_host' = <<env>>
        /\ IF current_python_version.panicked \/ broken.panicked
           THEN /\ pyPc' = "panicked"
                /\ python_broken_packages' =
                       [python_broken_packages EXCEPT !.senders = @ - 1]
           ELSE /\ pyPc' = "done"
                /\ python_broken_packages' =
                       [python_broken_packages EXCEPT !.queue = Append(@, broken.value),
                                                      !.senders = @ - 1]

PyThread ==
    /\ Running
    /\ pyPc = "running"
    /\ \E env \in PipelinePyEnvs : PyThreadOn(env)
    /\ UNCHANGED <<mainVars, package_chan, exec_files_chan, missing_deps_chan,
                   progress, stageA, stageB, stdout, envVars, hist>>

----------------------------------------------------------------------------
(* Controlling thread, main.rs:196-332 *)

\* main.rs:200-212: create the channel, spawn the detector thread
MainSpawnPython ==
    /\ mainPc = "start"
    /\ mainPc' = "list"
    /\ pyPc' = "running"
    /\ python_broken_packages' = Unbounded
    /\ UNCHANGED <<cpu_count, aur_packages, next_package, outer_panicked,
                   broken_python_packages, call, python_host, package_chan, exec_files_chan,
                   missing_deps_chan, progress, stageA, stageB, stdout, envVars, hist>>

\* main.rs:214-225: core count, package names (a failed query panics),
\* progress bar
MainListPackages ==
    /\ mainPc = "list"
    /\ \E cpus \in 1..MaxCpu, listing \in Listings :
        LET got == get_aur_packages(listing)
        IN  IF got.panicked
            THEN /\ mainPc' = "aborted"
                 /\ UNCHANGED <<cpu_count, aur_packages, progress>>
            ELSE /\ mainPc' = "spawn"
                 /\ cpu_count' = cpus
                 /\ aur_packages' = got.value
                 /\ progress' = [len |-> Len(got.value), pos |-> 0, cleared |-> FALSE]
    /\ UNCHANGED <<next_package, outer_panicked, broken_python_packages, call, pyVars,
                   package_chan, exec_files_chan, missing_deps_chan, stageA, stageB,
                   stdout, envVars, hist>>

\* main.rs:269 with one worker less than the core count
MutWorkerCount == cpu_count - 1

\* main.rs:269: cmp::min(cpu_count, aur_packages.len())
worker_count == IF cpu_count < Len(aur_packages) THEN cpu_count ELSE Len(aur_packages)

IdleWorkerA == [pc |-> "recv", package |-> <<>>, exec_files |-> <<>>, i |-> 0]

IdleWorkerB == [pc |-> "recv", package |-> <<>>, exec_filepath |-> <<>>,
                package_last |-> FALSE, missing_deps |-> <<>>]

\* main.rs:298 left out: main keeps its Sender of the work-item channel
MutExecFilesHandles == [queue |-> <<>>, senders |-> worker_count + 1,
                        receivers |-> cpu_count + 1]

\* main's Receiver of the work-item channel dropped next to its Sender at
\* main.rs:298
MutExecFilesNoMainReceiver == [queue |-> <<>>, senders |-> worker_count,
                               receivers |-> cpu_count]

\* the work-item channel after main.rs:232-298: a Receiver for main and one
\* for each Stage B worker, a Sender for each Stage A worker (main's is
\* dropped at main.rs:298)
ExecFilesHandles == [queue |-> <<>>, senders |-> worker_count,
                     receivers |-> cpu_count + 1]

\* main.rs:235 with the Stage B pool sized like the Stage A pool
MutMainSpawnWorkers ==
    /\ mainPc = "spawn"
    /\ mainPc' = "send"
    /\ stageB' = [w \in 1..worker_count |-> IdleWorkerB]
    /\ stageA' = [w \in 1..worker_count |-> IdleWorkerA]
    /\ missing_deps_chan' = [queue |-> <<>>, senders |-> worker_count, receivers |-> 1]
    /\ exec_files_chan' = [ExecFilesHandles EXCEPT !.receivers = worker_count + 1]
    /\ package_chan' = [queue |-> <<>>, senders |-> 1, receivers |-> worker_count + 1]
    /\ UNCHANGED <<cpu_count, aur_packages, next_package, outer_panicked,
                   broken_python_packages, call, pyVars, progress, stdout, envVars, hist>>

\* main.rs:227-298: the three channels, the two pools with their clones of
\* the handles, the drops of the handles main has no use for
MainSpawnWorkers ==
    /\ mainPc = "spawn"
    /\ mainPc' = "send"
    /\ stageB' = [w \in 1..cpu_count |-> IdleWorkerB]
    /\ stageA' = [w \in 1..worker_count |-> IdleWorkerA]
    /\ missing_deps_chan' = [queue |-> <<>>, senders |-> cpu_count, receivers |-> 1]
    /\ exec_files_chan' = ExecFilesHandles
    /\ package_chan' = [queue |-> <<>>, senders |-> 1, receivers |-> worker_count + 1]
    /\ UNCHANGED <<cpu_count, aur_packages, next_package, outer_panicked,
                   broken_python_packages, call, pyVars, progress, stdout, envVars, hist>>

\* main.rs:301-304: send one package name; unwrap panics if the send fails
MainSendPackage ==
    /\ mainPc = "send"
    /\ next_package <= Len(aur_packages)
    /\ IF SendOk(package_chan)
       THEN /\ package_chan' = [package_chan EXCEPT
                                   !.queue = Append(@, aur_packages[next_package])]
            /\ next_package' = next_package + 1
            /\ UNCHANGED <<mainPc, outer_panicked>>
       ELSE /\ mainPc' = "join_a"
            /\ outer_panicked' = TRUE
            /\ package_chan' = [package_chan EXCEPT !.senders = @ - 1,
                                                    !.receivers = @ - 1]
            /\ UNCHANGED next_package
    /\ UNCHANGED <<cpu_count, aur_packages, broken_python_packages, call, pyVars,
                   exec_files_chan, missing_deps_chan, progress, stageA, stageB, stdout,
                   envVars, hist>>

\* main.rs:305: the closure of the inner scope ends, package_tx and package_rx
\* are dropped
MainEndSend ==
    /\ mainPc = "send"
    /\ next_package > Len(aur_packages)
    /\ mainPc' = "join_a"
    /\ package_chan' = [package_chan EXCEPT !.senders = @ - 1, !.receivers = @ - 1]
    /\ UNCHANGED <<cpu_count, aur_packages, next_package, outer_panicked,
                   broken_python_packages, call, pyVars, exec_files_chan,
                   missing_deps_chan, progress, stageA, stageB, stdout, envVars, hist>>

\* main.rs:305-307: the inner scope joins its threads; unwrap panics if one of
\* them panicked; either way the closure of the outer scope ends and
\* exec_files_rx is dropped
MainJoinStageA ==
    /\ mainPc = "join_a"
    /\ \A w \in DOMAIN stageA : Gone(stageA[w])
    /\ mainPc' = "join_b"
    /\ outer_panicked' = (outer_panicked \/ AnyPanicked(stageA))
    /\ exec_files_chan' = [exec_files_chan EXCEPT !.receivers = @ - 1]
    /\ UNCHANGED <<cpu_count, aur_packages, next_package, broken_python_packages, call,
                   pyVars, package_chan, missing_deps_chan, progress, stageA, stageB,
                   stdout, envVars, hist>>

\* main.rs:307-308 with Stage B threads that the scope does not join
MutMainJoinStageB ==
    /\ mainPc = "join_b"
    /\ mainPc' = IF outer_panicked \/ AnyPanicked(stageB) THEN "aborted" ELSE "clear"
    /\ UNCHANGED <<cpu_count, aur_packages, next_package, outer_panicked,
                   broken_python_packages, call, pyVars, package_chan, exec_files_chan,
                   missing_deps_chan, progress, stageA, stageB, stdout, envVars, hist>>

\* main.rs:307-308: the outer scope joins its threads, then resumes the panic
\* of its closure, or returns Err if a thread panicked (unwrap panics)
MainJoinStageB ==
    /\ mainPc = "join_b"
    /\ \A w \in DOMAIN stageB : Gone(stageB[w])
    /\ mainPc' = IF outer_panicked \/ AnyPanicked(stageB) THEN "aborted" ELSE "clear"
    /\ UNCHANGED <<cpu_count, aur_packages, next_package, outer_panicked,
                   broken_python_packages, call, pyVars, package_chan, exec_files_chan,
                   missing_deps_chan, progress, stageA, stageB, stdout, envVars, hist>>

\* main.rs:310: progress.finish_and_clear()
MainFinishProgress ==
    /\ mainPc = "clear"
    /\ mainPc' = "drain"
    /\ progress' = [progress EXCEPT !.cleared = TRUE]
    /\ UNCHANGED <<cpu_count, aur_packages, next_package, outer_panicked,
                   broken_python_packages, call, pyVars, package_chan, exec_files_chan,
                   missing_deps_chan, stageA, stageB, stdout, envVars, hist>>

\* main.rs:312-320: one turn of the loop over missing_deps_rx.iter(), which
\* prints a finding, or ends when recv returns Err
MainDrain ==
    /\ mainPc = "drain"
    /\ IF missing_deps_chan.queue # <<>>
       THEN LET f == Head(missing_deps_chan.queue)
            IN  /\ stdout' = Append(stdout, [kind |-> "missing_dep", file |-> f[2],
                                             package |-> f[1], lib |-> f[3]])
                /\ missing_deps_chan' = [missing_deps_chan EXCEPT !.queue = Tail(@)]
                /\ UNCHANGED mainPc
       ELSE /\ RecvErr(missing_deps_chan)
            /\ mainPc' = "recv_python"
            /\ UNCHANGED <<stdout, missing_deps_chan>>
    /\ UNCHANGED <<cpu_count, aur_packages, next_package, outer_panicked,
                   broken_python_packages, call, pyVars, package_chan, exec_files_chan,
                   progress, stageA, stageB, envVars, hist>>

\* main.rs:322: python_broken_packages_rx.recv().unwrap(), which blocks while
\* the channel is empty and its sender alive, and panics on Err
MainRecvPython ==
    /\ mainPc = "recv_python"
    /\ IF python_broken_packages.queue # <<>>
       THEN /\ python_broken_packages' = [python_broken_packages EXCEPT !.queue = Tail(@)]
            /\ broken_python_packages' = Head(python_broken_packages.queue)
            /\ mainPc' = "print_python"
       ELSE /\ RecvErr(python_broken_packages)
            /\ mainPc' = "aborted"
            /\ UNCHANGED <<python_broken_packages, broken_python_packages>>
    /\ UNCHANGED <<cpu_count, aur_packages, next_package, outer_panicked, call, pyPc,
                   python_host, package_chan, exec_files_chan, missing_deps_chan, progress, stageA,
                   stageB, stdout, envVars, hist>>

\* main.rs:323-332: one turn of the loop over broken_python_packages, then
\* the return from main
MainPrintPython ==
    /\ mainPc = "print_python"
    /\ IF broken_python_packages # <<>>
       THEN LET couple == Head(broken_python_packages)
            IN  /\ stdout' = Append(stdout, [kind |-> "python", package |-> couple[1],
                                             dir |-> couple[2]])
                /\ broken_python_packages' = Tail(broken_python_packages)
                /\ UNCHANGED mainPc
       ELSE /\ mainPc' = "exit0"
            /\ UNCHANGED <<stdout, broken_python_packages>>
    /\ UNCHANGED <<cpu_count, aur_packages, next_package, outer_panicked, call, pyVars,
                   package_chan, exec_files_chan, missing_deps_chan, progress, stageA,
                   stageB, envVars, hist>>

MainStep ==
    \/ MainSpawnPython
    \/ MainListPackages
    \/ MainSpawnWorkers
    \/ MainSendPackage
    \/ MainEndSend
    \/ MainJoinStageA
    \/ MainJoinStageB
    \/ MainFinishProgress
    \/ MainDrain
    \/ MainRecvPython
    \/ MainPrintPython

----------------------------------------------------------------------------
(* Stage A worker, main.rs:274-294 *)

\* main.rs:278-281 with the increment left out of the zero-executable path
MutAfterEnumeration(exec_files) == IF exec_files = <<>> THEN "recv" ELSE "send"

\* main.rs:278-282: where the worker goes with the enumeration it got
AfterEnumeration(exec_files) == IF exec_files = <<>> THEN "inc" ELSE "send"

\* main.rs:275 on a channel that hands a message to every Receiver: the name
\* stays queued for the other workers
MutStageARecv(w) ==
    /\ Running
    /\ stageA[w].pc = "recv"
    /\ package_chan.queue # <<>>
    /\ LET package == Head(package_chan.queue)
       IN  \E query \in Manifests(package) :
            LET exec_files == get_package_executable_files(query)
            IN  /\ pacman_Ql' = (package :> query) @@ pacman_Ql
                /\ hist' = [hist EXCEPT ![package].received = @ + 1]
                /\ IF exec_files.panicked
                   THEN /\ stageA' = [stageA EXCEPT ![w] = [IdleWorkerA EXCEPT !.pc = "panicked"]]
                        /\ package_chan' = [package_chan EXCEPT !.receivers = @ - 1]
                        /\ exec_files_chan' = [exec_files_chan EXCEPT !.senders = @ - 1]
                   ELSE /\ stageA' = [stageA EXCEPT ![w] =
                               [pc |-> AfterEnumeration(exec_files.value),
                                package |-> package,
                                exec_files |-> exec_files.value,
                                i |-> 0]]
                        /\ package_chan' =
                               [package_chan EXCEPT !.queue =
                                   IF package_chan.receivers > 2 THEN @ ELSE Tail(@)]
                        /\ UNCHANGED exec_files_chan
    /\ UNCHANGED <<mainVars, pyVars, missing_deps_chan, progress, stageB, stdout, ldd>>

\* main.rs:275-277: recv a package name, enumerate its executable files
\* (a failed query panics, which drops the worker's handles)
StageARecv(w) ==
    /\ Running
    /\ stageA[w].pc = "recv"
    /\ package_chan.queue # <<>>
    /\ LET package == Head(package_chan.queue)
       IN  \E query \in Manifests(package) :
            LET exec_files == get_package_executable_files(query)
            IN  /\ pacman_Ql' = (package :> query) @@ pacman_Ql
                /\ hist' = [hist EXCEPT ![package].received = @ + 1]
                /\ IF exec_files.panicked
                   THEN /\ stageA' = [stageA EXCEPT ![w] = [IdleWorkerA EXCEPT !.pc = "panicked"]]
                        /\ package_chan' = [package_chan EXCEPT !.queue = Tail(@),
                                                                !.receivers = @ - 1]
                        /\ exec_files_chan' = [exec_files_chan EXCEPT !.senders = @ - 1]
                   ELSE /\ stageA' = [stageA EXCEPT ![w] =
                               [pc |-> AfterEnumeration(exec_files.value),
                                package |-> package,
                                exec_files |-> exec_files.value,
                                i |-> 0]]
                        /\ package_chan' = [package_chan EXCEPT !.queue = Tail(@)]
                        /\ UNCHANGED exec_files_chan
    /\ UNCHANGED <<mainVars, pyVars, missing_deps_chan, progress, stageB, stdout, ldd>>

\* main.rs:275: recv returns Err, the loop and the thread end, the worker's
\* handles are dropped
StageAExit(w) ==
    /\ Running
    /\ stageA[w].pc = "recv"
    /\ RecvErr(package_chan)
    /\ stageA' = [stageA EXCEPT ![w].pc = "exited"]
    /\ package_chan' = [package_chan EXCEPT !.receivers = @ - 1]
    /\ exec_files_chan' = [exec_files_chan EXCEPT !.senders = @ - 1]
    /\ UNCHANGED <<mainVars, pyVars, missing_deps_chan, progress, stageB, stdout,
                   envVars, hist>>

\* main.rs:279-280: progress.inc(1), continue
StageAInc(w) ==
    /\ Running
    /\ stageA[w].pc = "inc"
    /\ progress' = [progress EXCEPT !.pos = @ + 1]
    /\ hist' = [hist EXCEPT ![stageA[w].package].incA = @ + 1]
    /\ stageA' = [stageA EXCEPT ![w] = IdleWorkerA]
    /\ UNCHANGED <<mainVars, pyVars, package_chan, exec_files_chan, missing_deps_chan,
                   stageB, stdout, envVars>>

\* main.rs:286 with every item tagged
MutPackageLast(i, exec_files) == TRUE

\* main.rs:286: package_last: i == exec_files.len() - 1, i counted from 0
PackageLast(i, exec_files) == i = Len(exec_files) - 1

\* main.rs:289-291 without the break: a failed send is ignored and the loop
\* goes on to the next executable
MutStageASend(w) ==
    /\ Running
    /\ stageA[w].pc = "send"
    /\ LET me == stageA[w]
           to_send == [package |-> me.package,
                       exec_filepath |-> me.exec_files[me.i + 1],
                       package_last |-> PackageLast(me.i, me.exec_files)]
       IN  /\ IF SendOk(exec_files_chan)
              THEN /\ exec_files_chan' = [exec_files_chan EXCEPT !.queue = Append(@, to_send)]
                   /\ hist' = [hist EXCEPT ![me.package].sent = Append(@, to_send)]
              ELSE UNCHANGED <<exec_files_chan, hist>>
           /\ stageA' = [stageA EXCEPT ![w] =
                  IF me.i + 1 = Len(me.exec_files) THEN IdleWorkerA
                  ELSE [me EXCEPT !.i = @ + 1]]
    /\ UNCHANGED <<mainVars, pyVars, package_chan, missing_deps_chan, progress, stageB,
                   stdout, envVars>>

\* main.rs:282-292: one turn of the loop, which sends the work item of
\* exec_files[i] and breaks if the send fails
StageASend(w) ==
    /\ Running
    /\ stageA[w].pc = "send"
    /\ LET me == stageA[w]
           to_send == [package |-> me.package,
                       exec_filepath |-> me.exec_files[me.i + 1],
                       package_last |-> PackageLast(me.i, me.exec_files)]
       IN  IF SendOk(exec_files_chan)
           THEN /\ exec_files_chan' = [exec_files_chan EXCEPT !.queue = Append(@, to_send)]
                /\ hist' = [hist EXCEPT ![me.package].sent = Append(@, to_send)]
                /\ stageA' = [stageA EXCEPT ![w] =
                       IF me.i + 1 = Len(me.exec_files) THEN IdleWorkerA
                       ELSE [me EXCEPT !.i = @ + 1]]
           ELSE /\ stageA' = [stageA EXCEPT ![w] = IdleWorkerA]
                /\ UNCHANGED <<exec_files_chan, hist>>
    /\ UNCHANGED <<mainVars, pyVars, package_chan, missing_deps_chan, progress, stageB,
                   stdout, envVars>>

StageAStep(w) ==
    \/ StageARecv(w)
    \/ StageAExit(w)
    \/ StageAInc(w)
    \/ StageASend(w)

----------------------------------------------------------------------------
(* Stage B worker, main.rs:239-258 *)

\* main.rs:254 with the test of package_last left out
MutAfterFindings(work) == [work EXCEPT !.pc = "inc", !.missing_deps = <<>>]

\* main.rs:254-256: after the loop over the findings, the increment if the
\* item is tagged, else the next recv
AfterFindings(work) ==
    IF work.package_last THEN [work EXCEPT !.pc = "inc", !.missing_deps = <<>>]
    ELSE IdleWorkerB

\* main.rs:240-242: recv a work item, run the Dependency Checker on it
\* (ldd that cannot be run panics, which drops the worker's handles)
StageBRecv(w) ==
    /\ Running
    /\ stageB[w].pc = "recv"
    /\ exec_files_chan.queue # <<>>
    /\ LET exec_file_work == Head(exec_files_chan.queue)
       IN  \E output \in LddOutputs :
            LET missing_deps == get_missing_dependencies(output)
                work == [pc |-> "send",
                         package |-> exec_file_work.package,
                         exec_filepath |-> exec_file_work.exec_filepath,
                         package_last |-> exec_file_work.package_last,
                         missing_deps |-> missing_deps.value]
            IN  /\ ldd' = (exec_file_work.exec_filepath :> output) @@ ldd
                /\ hist' = [hist EXCEPT ![exec_file_work.package].probed =
                                Append(@, exec_file_work.exec_filepath)]
                /\ IF missing_deps.panicked
                   THEN /\ stageB' = [stageB EXCEPT ![w] = [IdleWorkerB EXCEPT !.pc = "panicked"]]
                        /\ exec_files_chan' = [exec_files_chan EXCEPT !.queue = Tail(@),
                                                                      !.receivers = @ - 1]
                        /\ missing_deps_chan' = [missing_deps_chan EXCEPT !.senders = @ - 1]
                   ELSE /\ stageB' = [stageB EXCEPT ![w] =
                               IF missing_deps.value = <<>> THEN AfterFindings(work)
                               ELSE work]
                        /\ exec_files_chan' = [exec_files_chan EXCEPT !.queue = Tail(@)]
                        /\ UNCHANGED missing_deps_chan
    /\ UNCHANGED <<mainVars, pyVars, package_chan, progress, stageA, stdout, pacman_Ql>>

\* main.rs:240: recv returns Err, the loop and the thread end, the worker's
\* handles are dropped
StageBExit(w) ==
    /\ Running
    /\ stageB[w].pc = "recv"
    /\ RecvErr(exec_files_chan)
    /\ stageB' = [stageB EXCEPT ![w].pc = "exited"]
    /\ exec_files_chan' = [exec_files_chan EXCEPT !.receivers = @ - 1]
    /\ missing_deps_chan' = [missing_deps_chan EXCEPT !.senders = @ - 1]
    /\ UNCHANGED <<mainVars, pyVars, package_chan, progress, stageA, stdout, envVars,
                   hist>>

\* main.rs:243-253 with a break after the first send
MutRestAfterSend(missing_deps) == <<>>

\* main.rs:243: the findings the for loop still has to send after one turn
RestAfterSend(missing_deps) == Tail(missing_deps)

\* main.rs:243-253: one turn of the loop, which sends one finding and breaks
\* if the send fails
StageBSend(w) ==
    /\ Running
    /\ stageB[w].pc = "send"
    /\ LET me == stageB[w]
           to_send == <<me.package, me.exec_filepath, Head(me.missing_deps)>>
       IN  IF SendOk(missing_deps_chan)
           THEN /\ missing_deps_chan' = [missing_deps_chan EXCEPT !.queue = Append(@, to_send)]
                /\ stageB' = [stageB EXCEPT ![w] =
                       IF RestAfterSend(me.missing_deps) = <<>> THEN AfterFindings(me)
                       ELSE [me EXCEPT !.missing_deps = RestAfterSend(@)]]
           ELSE /\ stageB' = [stageB EXCEPT ![w] = AfterFindings(me)]
                /\ UNCHANGED missing_deps_chan
    /\ UNCHANGED <<mainVars, pyVars, package_chan, exec_files_chan, progress, stageA,
                   stdout, envVars, hist>>

\* main.rs:255: progress.inc(1)
StageBInc(w) ==
    /\ Running
    /\ stageB[w].pc = "inc"
    /\ progress' = [progress EXCEPT !.pos = @ + 1]
    /\ hist' = [hist EXCEPT ![stageB[w].package].incB = Append(@, stageB[w].exec_filepath)]
    /\ stageB' = [stageB EXCEPT ![w] = IdleWorkerB]
    /\ UNCHANGED <<mainVars, pyVars, package_chan, exec_files_chan, missing_deps_chan,
                   stageA, stdout, envVars>>

StageBStep(w) ==
    \/ StageBRecv(w)
    \/ StageBExit(w)
    \/ StageBSend(w)
    \/ StageBInc(w)

----------------------------------------------------------------------------
(* The scan *)

Next ==
    \/ MainStep
    \/ PyThread
    \/ \E w \in DOMAIN stageA : StageAStep(w)
    \/ \E w \in DOMAIN stageB : StageBStep(w)

Spec == Init /\ [][Next]_vars

\* every thread that can take a step is scheduled in the end
FairSpec == Spec /\ WF_vars(Next)

----------------------------------------------------------------------------
(* The Dependency Checker called on its own, as tests::test_get_missing_dependencies
   does with an ldd of its own making *)

RECURSIVE SeqsUpTo(_, _)
SeqsUpTo(S, n) ==
    IF n = 0 THEN {<<>>}
    ELSE LET shorter == SeqsUpTo(S, n - 1)
         IN  shorter \cup {Append(q, x) : q \in shorter, x \in S}

\* what a line of ldd can start with, and how it can end: the not-found
\* marker, a resolved library, an address alone
LineHeads == SeqsUpTo({"\t", " ", "liba", "libb"}, 2)

LineTails ==
    { <<" ">> \o NotFoundMarker,
      <<" ", "=>", " ", "/usr/lib/liba", " ", "(0x7f)">>,
      <<" ", "(0x7f)">> }

LddLines == {h \o t : h \in LineHeads, t \in LineTails}

ProbeOutputs ==
    {[spawned |-> FALSE, success |-> FALSE, lines |-> <<>>]} \cup
    {[spawned |-> TRUE, success |-> ok, lines |-> ls] :
        ok \in BOOLEAN, ls \in SeqsUpTo(LddLines, MaxLines)}

InitDeps ==
    /\ InitPipeline
    /\ call \in {[fn |-> "get_missing_dependencies", arg |-> output,
                  returned |-> FALSE, ret |-> <<>>] : output \in ProbeOutputs}

\* main.rs:398: get_missing_dependencies("dummy")
CallGetMissingDependencies ==
    /\ call.fn = "get_missing_dependencies"
    /\ ~call.returned
    /\ call' = [call EXCEPT !.returned = TRUE, !.ret = get_missing_dependencies(call.arg)]
    /\ UNCHANGED <<mainPc, cpu_count, aur_packages, next_package, outer_panicked,
                   broken_python_packages, pyVars, package_chan, exec_files_chan,
                   missing_deps_chan, progress, stageA, stageB, stdout, envVars, hist>>

NextDeps == CallGetMissingDependencies

SpecDeps == InitDeps /\ [][NextDeps]_vars

----------------------------------------------------------------------------
(* The Python Mismatch Detector's get_broken_python_packages called on its own *)

\* the entries of /usr/lib a system can have
PythonDirs ==
    { PyDir(<<"2", ".", "7">>), PyDir(<<"3">>), PyDir(<<"3", ".", "1">>),
      PyDir(<<"3", ".", "9">>), PyDir(<<"3", ".", "1", "0">>) }

PythonVersions ==
    {[major |-> ma, minor |-> mi, release |-> 7, package |-> 2] :
        ma \in {2, 3}, mi \in {1, 9, 10}}

\* outcomes of `pacman -Qoq dir`: a failure, or owners, one a line
OwnerAnswers ==
    {[ok |-> FALSE, lines |-> <<>>]} \cup
    {[ok |-> TRUE, lines |-> ls] : ls \in SeqsUpTo({<<"pkg1">>, <<"pkg2">>}, 2)}

PythonSystems ==
    UNION {[version : PythonVersions, fs : {fs}, owner_db : [fs -> OwnerAnswers]] :
              fs \in {d \in SUBSET PythonDirs : Cardinality(d) <= MaxDirs}}

InitPy ==
    /\ InitPipeline
    /\ call \in {[fn |-> "get_broken_python_packages", arg |-> sys,
                  returned |-> FALSE, ret |-> <<>>] : sys \in PythonSystems}

\* main.rs:207: get_broken_python_packages(&current_python_version)
CallGetBrokenPythonPackages ==
    /\ call.fn = "get_broken_python_packages"
    /\ ~call.returned
    /\ call' = [call EXCEPT !.returned = TRUE,
                            !.ret = get_broken_python_packages(call.arg.version,
                                                               call.arg.fs,
                                                               call.arg.owner_db)]
    /\ UNCHANGED <<mainPc, cpu_count, aur_packages, next_package, outer_panicked,
                   broken_python_packages, pyVars, package_chan, exec_files_chan,
                   missing_deps_chan, progress, stageA, stageB, stdout, envVars, hist>>

NextPy == CallGetBrokenPythonPackages

SpecPy == InitPy /\ [][NextPy]_vars

----------------------------------------------------------------------------
(* Claims about the functions called on their own *)

Range(q) == {q[i] : i \in 1..Len(q)}

\* the first whitespace-delimited token of a line
FirstWhitespaceToken(l) ==
    LET t == TrimStart(l)
        ws == {i \in 1..Len(t) : t[i] \in WhiteSpace}
    IN  IF ws = {} THEN t ELSE SubSeq(t, 1, Min(ws) - 1)

DepsReturned ==
    /\ call.fn = "get_missing_dependencies"
    /\ call.returned
    /\ call.arg.spawned
    /\ call.arg.success

\* C7: for every output of a probe that exited with success,
\* get_missing_dependencies returns, in the order of the lines, the first
\* whitespace-delimited token of each line that ends with "=> not found", and
\* nothing for any other line; duplicates are kept.
C7_FirstTokenOfNotFoundLines ==
    DepsReturned =>
        /\ ~call.ret.panicked
        /\ LET found == SelectSeq(call.arg.lines,
                                   LAMBDA l : EndsWith(l, NotFoundMarker))
           IN  call.ret.value = [i \in 1..Len(found) |-> FirstWhitespaceToken(found[i])]

PyReturned ==
    /\ call.fn = "get_broken_python_packages"
    /\ call.returned
    /\ ~call.ret.panicked

\* the directories the pattern of the active major version matches
MatchedDirs == Range(glob(call.arg.fs, call.arg.version.major))

ActiveDir ==
    PyDir(FormatU8(call.arg.version.major) \o <<".">> \o FormatU8(call.arg.version.minor))

\* C10: get_broken_python_packages returns exactly the (package, directory)
\* couples where the directory is matched by the pattern of the active major
\* version and is not the directory of the active major.minor, and the package
\* is one of the owners the catalog lists for it; the active directory never
\* appears and no couple appears twice.
C10_StrayCouplesExactlyOnce ==
    PyReturned =>
        LET got == call.ret.value
            want == {<<package, dir>> : package \in AllPackageNames, dir \in MatchedDirs}
            owned == {c \in want : c[2] # ActiveDir
                                   /\ c[1] \in Range(call.arg.owner_db[c[2]].lines)}
        IN  /\ Range(got) = owned
            /\ \A i, j \in 1..Len(got) : got[i] = got[j] => i = j
            /\ \A i \in 1..Len(got) : got[i][2] # ActiveDir

\* C10 witness: the active directory is there with two others, an owner
\* query listed a package twice, and couples of two directories are returned
C10_Witness ==
    /\ PyReturned
    /\ ActiveDir \in MatchedDirs
    /\ Cardinality(MatchedDirs) = 3
    /\ \E d \in MatchedDirs \ {ActiveDir} :
          call.arg.owner_db[d].lines = << <<"pkg1">>, <<"pkg1">> >>
    /\ Cardinality({call.ret.value[i][2] : i \in 1..Len(call.ret.value)}) = 2

----------------------------------------------------------------------------
(* Claims about the scan *)

Listed == Range(aur_packages)

\* the enumeration the Executable File Enumerator returned for a package
Files(package) == get_package_executable_files(pacman_Ql[package]).value

Enumerated == {p \in DOMAIN pacman_Ql : ~get_package_executable_files(pacman_Ql[p]).panicked}

\* both scopes have returned Ok: the scan completed without fatal failure
ScanDone == mainPc \in {"clear", "drain", "recv_python", "print_python", "exit0"}

\* the loop over the findings queue has ended
DrainDone == mainPc \in {"recv_python", "print_python", "exit0"}

CountIn(q, x) == Cardinality({i \in 1..Len(q) : q[i] = x})

\* C1: when a scan without fatal failure completes, the progress counter
\* equals the number of packages, and each package has contributed exactly
\* one increment: from Stage A if it has no executable, else from the Stage B
\* worker that processed its last-tagged work item.
C1_ProgressEqualsPackageCount ==
    ScanDone =>
        /\ progress.len = Len(aur_packages)
        /\ progress.pos = Len(aur_packages)
        /\ \A p \in AllPackageNames \ Listed : hist[p].incA = 0 /\ hist[p].incB = <<>>
        /\ \A p \in Listed :
            /\ p \in Enumerated
            /\ hist[p].incA + Len(hist[p].incB) = 1
            /\ Files(p) = <<>> => hist[p].incA = 1
            /\ Files(p) # <<>> => hist[p].incB = <<Files(p)[Len(Files(p))]>>

\* C1 witness: a scan of two packages by two workers a stage has completed,
\* one package has no executable and one has many
C1_Witness ==
    /\ mainPc = "clear"
    /\ cpu_count = 2
    /\ \E p, q \in Listed : Files(p) = <<>> /\ Len(Files(q)) > 1
    /\ progress.pos = 2

MissingDepLines == SelectSeq(stdout, LAMBDA line : line.kind = "missing_dep")

\* the findings the Dependency Checker returned for an executable
Findings(exec_file) == get_missing_dependencies(ldd[exec_file]).value

\* C2: when a scan without fatal failure completes, the findings the
\* controlling thread took from the findings queue are, as a multiset, the
\* (package, executable, library) triples of the Dependency Checker's results
\* on every executable enumerated for every listed package.
C2_FindingsAreExactlyTheCheckerResults ==
    DrainDone =>
        /\ \A p \in Listed : p \in Enumerated /\ Range(Files(p)) \subseteq DOMAIN ldd
        /\ \A i \in 1..Len(MissingDepLines) :
            LET line == MissingDepLines[i]
            IN  /\ line.package \in Listed
                /\ line.file \in Range(Files(line.package))
                /\ CountIn(MissingDepLines, line) = CountIn(Findings(line.file), line.lib)
        /\ \A p \in Listed : \A x \in Range(Files(p)) : \A lib \in Range(Findings(x)) :
            \E i \in 1..Len(MissingDepLines) :
                MissingDepLines[i] = [kind |-> "missing_dep", file |-> x,
                                      package |-> p, lib |-> lib]

\* C2 witness: a completed scan printed the same triple twice
C2_Witness ==
    /\ mainPc = "exit0"
    /\ cpu_count = 2
    /\ Len(aur_packages) = 2
    /\ \E i, j \in 1..Len(MissingDepLines) : i # j /\ MissingDepLines[i] = MissingDepLines[j]
    /\ \E i, j \in 1..Len(MissingDepLines) :
          MissingDepLines[i].package # MissingDepLines[j].package

\* C3: for a package with N > 0 executables Stage A sends the N work items in
\* the order of the enumeration, only the item of the last entry is tagged
\* package_last, Stage A makes no increment for it and Stage B at most one,
\* made for the tagged item after it was received and checked; when the scan
\* completes all N items are sent and the increment is made.
C3_OneTaggedItemOneIncrement ==
    \A p \in Enumerated :
        Files(p) # <<>> =>
            LET files == Files(p)
                N == Len(files)
                sent == hist[p].sent
            IN  /\ Len(sent) <= N
                /\ \A i \in 1..Len(sent) :
                       sent[i] = [package |-> p, exec_filepath |-> files[i],
                                  package_last |-> (i = N)]
                /\ hist[p].incA = 0
                /\ hist[p].incB \in {<<>>, <<files[N]>>}
                /\ hist[p].incB # <<>> => Len(sent) = N /\ files[N] \in DOMAIN ldd
                /\ ScanDone => Len(sent) = N /\ hist[p].incB = <<files[N]>>

\* C3 witness: the scan completed and a package with two executables got its
\* increment from the item of the second
C3_Witness ==
    /\ ScanDone
    /\ \E p \in Enumerated :
          /\ Len(Files(p)) = 2
          /\ Len(hist[p].sent) = 2
          /\ hist[p].incB = <<Files(p)[2]>>

\* C4: for a package whose enumeration is empty, the Stage A worker that took
\* it increments the counter once (it stands at the increment until it has)
\* and no work item of the package is ever sent, queued or held by Stage B,
\* which makes no increment for it.
C4_ZeroExecutablesOneIncrementNoItem ==
    \A p \in Enumerated :
        Files(p) = <<>> =>
            LET at_inc == {w \in DOMAIN stageA : stageA[w].pc = "inc" /\ stageA[w].package = p}
            IN  /\ hist[p].sent = <<>>
                /\ hist[p].incB = <<>>
                /\ hist[p].incA = (IF at_inc = {} THEN 1 ELSE 0)
                /\ Cardinality(at_inc) <= 1
                /\ \A i \in 1..Len(exec_files_chan.queue) : exec_files_chan.queue[i].package # p
                /\ \A w \in DOMAIN stageB : stageB[w].package # p

\* C4 witness: a package without executable has been counted by Stage A while
\* another package's work item is queued
C4_Witness ==
    /\ \E p \in Enumerated : Files(p) = <<>> /\ hist[p].incA = 1
    /\ progress.pos = 1
    /\ exec_files_chan.queue # <<>>

----------------------------------------------------------------------------
(* Claims about shutdown and failure *)

\* main.rs:228-270 has run: the channels and both pools exist
PoolsSpawned == DOMAIN stageB # {}

StageAPanicked == \E w \in DOMAIN stageA : stageA[w].pc = "panicked"

StageBPanicked == \E w \in DOMAIN stageB : stageB[w].pc = "panicked"

\* a collaborator call has failed fatally somewhere, or main has died
FatalOccurred ==
    \/ mainPc = "aborted"
    \/ pyPc = "panicked"
    \/ StageAPanicked
    \/ StageBPanicked

\* main returned, every worker of both stages has exited and nothing is queued
Completed ==
    /\ mainPc = "exit0"
    /\ \A w \in DOMAIN stageA : stageA[w].pc = "exited"
    /\ \A w \in DOMAIN stageB : stageB[w].pc = "exited"
    /\ package_chan.queue = <<>>
    /\ exec_files_chan.queue = <<>>
    /\ missing_deps_chan.queue = <<>>

\* C5: under fair scheduling and absent fatal failures the scan terminates for
\* every package list, the empty one included: all Stage A workers exit, all
\* Stage B workers exit, the drain of the findings queue ends and main
\* returns; no worker stays blocked on a queue that is never closed.
C5_ScanTerminates == <>(FatalOccurred \/ Completed)

\* C5 witness: the scan of an empty package list (no Stage A worker, two
\* Stage B workers) has run to completion
C5_Witness ==
    /\ Completed
    /\ aur_packages = <<>>
    /\ DOMAIN stageA = {}
    /\ Cardinality(DOMAIN stageB) = 2
    /\ pyPc = "done"

\* C6: shutdown follows the stage order. The package-name queue is closed
\* only after all names are enqueued; the work-item queue is closed only after
\* every Stage A worker has exited, so no Stage B worker exits while a Stage A
\* worker runs or a work item is queued; the findings queue is closed only
\* after every Stage B worker has exited.
C6_ShutdownFollowsStageOrder ==
    PoolsSpawned =>
        /\ package_chan.senders = 0 => next_package = Len(aur_packages) + 1
        /\ \A a \in DOMAIN stageA :
               stageA[a].pc = "exited" =>
                   package_chan.senders = 0 /\ package_chan.queue = <<>>
        /\ exec_files_chan.senders = 0 => \A a \in DOMAIN stageA : Gone(stageA[a])
        /\ \A b \in DOMAIN stageB :
               stageB[b].pc = "exited" =>
                   /\ \A a \in DOMAIN stageA : Gone(stageA[a])
                   /\ exec_files_chan.queue = <<>>
        /\ missing_deps_chan.senders = 0 => \A b \in DOMAIN stageB : Gone(stageB[b])
        /\ DrainDone => missing_deps_chan.senders = 0 /\ missing_deps_chan.queue = <<>>

\* C6 witness: the work-item queue is closed with an item still queued, one
\* Stage B worker has exited, and the other then sends its last finding
C6_Witness ==
    /\ PoolsSpawned
    /\ Len(aur_packages) = 2
    /\ \A a \in DOMAIN stageA : stageA[a].pc = "exited"
    /\ exec_files_chan.senders = 0
    /\ \E b, c \in DOMAIN stageB : stageB[b].pc = "exited" /\ stageB[c].pc = "send"
    /\ missing_deps_chan.senders = 1

\* the fatal conditions of a scan: the package listing failed, the manifest
\* query of a Stage A worker failed, or the Python detector's version or
\* owner query failed or gave unparseable data
EnvironmentFatal ==
    \/ mainPc = "aborted" /\ ~PoolsSpawned
    \/ StageAPanicked
    \/ pyPc = "panicked"

\* C8: whenever an environment-fatal condition has occurred, the process does
\* not complete with exit 0, and it ends in abnormal termination.
C8_FatalMeansAbnormalTermination ==
    /\ [](EnvironmentFatal => mainPc # "exit0")
    /\ (EnvironmentFatal ~> (mainPc = "aborted"))

\* C8 witness: main has died of the manifest query failure of a Stage A worker
\* while the Python detector had delivered its result
C8_Witness ==
    /\ mainPc = "aborted"
    /\ StageAPanicked
    /\ pyPc = "done"
    /\ ~StageBPanicked

\* a collaborator call has failed fatally in a thread other than main
FailedInThread == StageAPanicked \/ pyPc = "panicked"

\* C9: once a collaborator call has failed fatally in a Stage A worker or in
\* the Python detector thread, no worker takes a further package name or work
\* item, no further progress increment happens and no line is printed.
C9_FatalStopsScanAtOnce ==
    [][FailedInThread =>
          /\ Len(package_chan'.queue) >= Len(package_chan.queue)
          /\ Len(exec_files_chan'.queue) >= Len(exec_files_chan.queue)
          /\ progress'.pos = progress.pos
          /\ stdout' = stdout]_vars

----------------------------------------------------------------------------
(* The Executable File Enumerator's get_package_executable_files called on
   its own *)

\* a manifest of `pacman -Ql` has at most this many lines
MaxEntries == 2

\* the paths a manifest can list: a directory, a file, a file whose name has
\* a space in it and the path that stops at that space
ManifestPaths ==
    { DirPath, <<"/usr/bin/a1">>, <<"/opt/my", " ", "app">>, <<"/opt/my">> }

\* what fs::metadata can answer for a path: Err, a directory, a regular file
\* of mode 0o644, 0o755 or 0o641
MetadataAnswers ==
    { [exists |-> FALSE, is_file |-> FALSE, mode |-> 0],
      [exists |-> TRUE, is_file |-> FALSE, mode |-> 493],
      [exists |-> TRUE, is_file |-> TRUE, mode |-> 420],
      [exists |-> TRUE, is_file |-> TRUE, mode |-> 493],
      [exists |-> TRUE, is_file |-> TRUE, mode |-> 417] }

\* a line of `pacman -Ql pkg1`: the package name, a space, the path
ManifestLine(path) == <<"pkg1", " ">> \o path

ManifestQueries ==
    {[ok |-> FALSE, lines |-> <<>>, metadata |-> [path \in ManifestPaths |-> m]] :
        m \in {[exists |-> FALSE, is_file |-> FALSE, mode |-> 0]}} \cup
    {[ok |-> TRUE,
      lines |-> [i \in 1..Len(entries) |-> ManifestLine(entries[i])],
      metadata |-> metadata] :
        entries \in SeqsUpTo(ManifestPaths, MaxEntries),
        metadata \in [ManifestPaths -> MetadataAnswers]}

InitExec ==
    /\ InitPipeline
    /\ call \in {[fn |-> "get_package_executable_files", arg |-> query,
                  returned |-> FALSE, ret |-> <<>>] : query \in ManifestQueries}

\* main.rs:276: get_package_executable_files(&package)
CallGetPackageExecutableFiles ==
    /\ call.fn = "get_package_executable_files"
    /\ ~call.returned
    /\ call' = [call EXCEPT !.returned = TRUE,
                            !.ret = get_package_executable_files(call.arg)]
    /\ UNCHANGED <<mainPc, cpu_count, aur_packages, next_package, outer_panicked,
                   broken_python_packages, pyVars, package_chan, exec_files_chan,
                   missing_deps_chan, progress, stageA, stageB, stdout, envVars, hist>>

NextExec == CallGetPackageExecutableFiles

SpecExec == InitExec /\ [][NextExec]_vars

ExecReturned ==
    /\ call.fn = "get_package_executable_files"
    /\ call.returned
    /\ call.arg.ok

\* the entry of a manifest line: what follows the package name and the space
EntryOfLine(line) == SubSeq(line, 3, Len(line))

ManifestEntries == [i \in 1..Len(call.arg.lines) |-> EntryOfLine(call.arg.lines[i])]

\* an entry that exists on disk, is a regular file and has an executable bit
IsExecutableEntry(path) ==
    /\ call.arg.metadata[path].exists
    /\ call.arg.metadata[path].is_file
    /\ call.arg.metadata[path].mode % 2 = 1
       \/ (call.arg.metadata[path].mode \div 8) % 2 = 1
       \/ (call.arg.metadata[path].mode \div 64) % 2 = 1

\* C11: for every manifest, get_package_executable_files returns without
\* error exactly the subsequence, in manifest order, of the entries that
\* exist on disk, are regular files and have at least one executable bit.
C11_ExecutableEntriesInManifestOrder ==
    ExecReturned =>
        /\ ~call.ret.panicked
        /\ call.ret.value = SelectSeq(ManifestEntries, IsExecutableEntry)

\* the manifests of C11 whose paths hold no space
NoSpaceInEntries == \A i \in 1..Len(ManifestEntries) : \A j \in 1..Len(ManifestEntries[i]) : ManifestEntries[i][j] # " "

----------------------------------------------------------------------------
(* Claims about the workers *)

\* ldd ran on the executable and exited with a non-zero status
ProbeFailed(output) == output.spawned /\ ~output.success

\* a Stage B worker takes the work item at the head of the queue in this step
StageBTakes == exec_files_chan.queue # <<>> /\ exec_files_chan'.queue = Tail(exec_files_chan.queue)

\* C12: when ldd exits with a non-zero status on a work item, whatever it
\* printed, the Stage B worker that took the item does not fail, holds and
\* sends no finding for it, goes to the progress increment if the item is
\* last-tagged and otherwise straight to the next recv; no finding of that
\* executable is ever queued or printed, and the increment, once made, leads
\* back to the recv.
C12_NonZeroProbeYieldsNoFinding ==
    /\ [][StageBTakes =>
            LET item == Head(exec_files_chan.queue)
            IN  ProbeFailed(ldd'[item.exec_filepath]) =>
                  /\ missing_deps_chan' = missing_deps_chan
                  /\ progress' = progress
                  /\ \A w \in DOMAIN stageB :
                       stageB'[w] # stageB[w] =>
                          /\ stageB'[w].pc = "inc"
                          /\ item.package_last
                          /\ stageB'[w].missing_deps = <<>>
                          /\ stageB'[w].exec_filepath = item.exec_filepath
                  /\ ~item.package_last => stageB' = stageB]_vars
    /\ [][\A w \in DOMAIN stageB :
            stageB[w].pc = "inc" /\ stageB'[w] # stageB[w] =>
                stageB'[w].pc = "recv" /\ progress'.pos = progress.pos + 1]_vars
    /\ [](\A x \in DOMAIN ldd :
            ProbeFailed(ldd[x]) =>
              /\ \A i \in 1..Len(missing_deps_chan.queue) : missing_deps_chan.queue[i][2] # x
              /\ \A i \in 1..Len(MissingDepLines) : MissingDepLines[i].file # x
              /\ \A w \in DOMAIN stageB :
                    stageB[w].exec_filepath = x => stageB[w].pc = "inc")

\* C12 witness: ldd printed a "not found" line and exited non-zero on the
\* last executable of a package; the package was counted for that executable,
\* the scan went on to print a finding of another executable and ended
C12_Witness ==
    /\ mainPc = "exit0"
    /\ MissingDepLines # <<>>
    /\ \E p \in Listed :
          /\ Len(Files(p)) = 2
          /\ LET x == Files(p)[2]
             IN  /\ ProbeFailed(ldd[x])
                 /\ ldd[x].lines # <<>>
                 /\ hist[p].incB = <<x>>
                 /\ ldd[Files(p)[1]].success

----------------------------------------------------------------------------
(* Claims about the output *)

\* how many times the output of ldd on an executable reports a library
ProbeCount(exec_file, lib) ==
    IF ~ldd[exec_file].success THEN 0
    ELSE Cardinality({i \in 1..Len(ldd[exec_file].lines) :
                        /\ EndsWith(ldd[exec_file].lines[i], NotFoundMarker)
                        /\ LibOfLine(ldd[exec_file].lines[i]) = lib})

ProbeLibs(exec_file) ==
    {LibOfLine(ldd[exec_file].lines[i]) : i \in 1..Len(ldd[exec_file].lines)}

\* the stray-directory findings of the system the detector met
HostStrayCouples ==
    LET host == python_host[1]
        v == get_python_version(host.info).value
        dirs == Range(glob(host.fs, v.major)) \ {current_python_dir(v)}
    IN  {<<package, dir>> : package \in AllPackageNames, dir \in dirs} \cap
        {c \in AllPackageNames \X host.fs : c[1] \in Range(host.owner_db[c[2]].lines)}

PythonLines == SelectSeq(stdout, LAMBDA line : line.kind = "python")

\* C13: the findings of a complete scan are, as unordered collections, a
\* function of the system alone (the package list, the manifests, the outputs
\* of ldd, the answers to the detector's queries): each missing-dependency
\* line is printed as many times as ldd reported the library for that
\* executable of a listed package and the stray-directory lines are the set
\* of the system's stray couples, whatever the interleaving and the number of
\* workers; so two complete scans of one system differ in order only.
C13_FindingsAreAFunctionOfTheSystem ==
    mainPc = "exit0" =>
        /\ \A i \in 1..Len(MissingDepLines) :
              LET line == MissingDepLines[i]
              IN  /\ line.package \in Listed \cap Enumerated
                  /\ line.file \in Range(Files(line.package))
                  /\ CountIn(stdout, line) = ProbeCount(line.file, line.lib)
        /\ Listed \subseteq Enumerated
        /\ \A p \in Listed : \A x \in Range(Files(p)) :
              /\ x \in DOMAIN ldd
              /\ \A lib \in ProbeLibs(x) :
                    CountIn(stdout, [kind |-> "missing_dep", file |-> x,
                                     package |-> p, lib |-> lib]) = ProbeCount(x, lib)
        /\ python_host # <<>>
        /\ {<<PythonLines[i].package, PythonLines[i].dir>> : i \in 1..Len(PythonLines)}
              = HostStrayCouples
        /\ Len(stdout) = Len(MissingDepLines) + Len(PythonLines)

\* C13 witness: a complete scan by two workers a stage printed a finding of
\* the second package before a finding of the first, and a stray directory
C13_Witness ==
    /\ mainPc = "exit0"
    /\ cpu_count = 2
    /\ Len(aur_packages) = 2
    /\ PythonLines # <<>>
    /\ \E i, j \in 1..Len(MissingDepLines) :
          /\ i < j
          /\ MissingDepLines[i].package = aur_packages[2]
          /\ MissingDepLines[j].package = aur_packages[1]

\* the steps of the controlling thread in the order of main.rs:196-332
MainOrder ==
    <<"start", "list", "spawn", "send", "join_a", "join_b", "clear", "drain",
      "recv_python", "print_python", "exit0">>

MainRank(pc) == CHOOSE i \in 1..Len(MainOrder) : MainOrder[i] = pc

\* C14: the controlling thread launches the detector, lists the packages,
\* runs both stages, drains the findings queue, receives the detector's
\* result and only then prints both result sets: it goes through its steps
\* in this order, and no line is printed before the detector's result has
\* been received.
C14_NothingPrintedBeforePythonResult ==
    /\ [][mainPc' # "aborted" => MainRank(mainPc') >= MainRank(mainPc)]_vars
    /\ [](pyPc = "unspawned" => mainPc = "start")
    /\ [](stdout # <<>> => mainPc \in {"print_python", "exit0"})

----------------------------------------------------------------------------
(* The worker loops run against a queue whose consumer is gone: the closures
   of main.rs:239-258 and main.rs:273-294 with every Receiver of their output
   channel dropped. The scan itself never gets there, see
   C20_NoSendEverFails. *)

\* the consumer side that is gone: the one of the work-item queue (no Stage B
\* worker, no Receiver left) or the one of the findings queue
InitDisconnected ==
    /\ call = NoCall
    /\ outer_panicked = FALSE
    /\ pyPc = "running"
    /\ python_host = <<>>
    /\ python_broken_packages = Unbounded
    /\ broken_python_packages = <<>>
    /\ stdout = <<>>
    /\ pacman_Ql = <<>>
    /\ ldd = <<>>
    /\ hist = [n \in AllPackageNames |->
                  [received |-> 0, sent |-> <<>>, probed |-> <<>>, incA |-> 0,
                   incB |-> <<>>]]
    /\ \E cpus \in 1..MaxCpu, n \in 1..MaxPackages, gone \in {"exec_files", "missing_deps"} :
        LET names == SubSeq(PackageNames, 1, n)
            workers == IF cpus < n THEN cpus ELSE n
        IN  /\ mainPc = "join_a"
            /\ cpu_count = cpus
            /\ aur_packages = names
            /\ next_package = n + 1
            /\ progress = [len |-> n, pos |-> 0, cleared |-> FALSE]
            /\ package_chan = [queue |-> names, senders |-> 0, receivers |-> workers]
            /\ stageA = [w \in 1..workers |-> IdleWorkerA]
            /\ IF gone = "exec_files"
               THEN /\ exec_files_chan = [queue |-> <<>>, senders |-> workers,
                                          receivers |-> 0]
                    /\ missing_deps_chan = [queue |-> <<>>, senders |-> 0, receivers |-> 1]
                    /\ stageB = <<>>
               ELSE /\ exec_files_chan = [queue |-> <<>>, senders |-> workers,
                                          receivers |-> cpus]
                    /\ missing_deps_chan = [queue |-> <<>>, senders |-> cpus,
                                            receivers |-> 0]
                    /\ stageB = [w \in 1..cpus |-> IdleWorkerB]

NextDisconnected ==
    \/ \E w \in DOMAIN stageA : StageAStep(w)
    \/ \E w \in DOMAIN stageB : StageBStep(w)

SpecDisconnected == InitDisconnected /\ [][NextDisconnected]_vars

\* C15: a send that fails because the queue's consumer is gone is never
\* fatal. A Stage A worker whose send on the work-item queue fails drops the
\* remaining work items of the package (nothing more is queued or recorded as
\* sent for it) and stands at the recv of the next package name; a Stage B
\* worker whose send on the findings queue fails drops the remaining findings
\* of the work item and goes on (to the increment if the item is last-tagged,
\* else to the next recv); neither worker panics.
C15_FailedSendIsNotFatal ==
    /\ [][\A w \in DOMAIN stageA :
            /\ stageA[w].pc = "send"
            /\ exec_files_chan.receivers = 0
            /\ stageA'[w] # stageA[w]
            => /\ stageA'[w] = IdleWorkerA
               /\ exec_files_chan' = exec_files_chan
               /\ hist' = hist
               /\ progress' = progress]_vars
    /\ [][\A w \in DOMAIN stageB :
            /\ stageB[w].pc = "send"
            /\ missing_deps_chan.receivers = 0
            /\ stageB'[w] # stageB[w]
            => /\ stageB'[w].pc = (IF stageB[w].package_last THEN "inc" ELSE "recv")
               /\ stageB'[w].missing_deps = <<>>
               /\ missing_deps_chan' = missing_deps_chan
               /\ progress' = progress]_vars
    /\ [](\A w \in DOMAIN stageA :
            stageA[w].pc = "panicked" => \E p \in DOMAIN pacman_Ql : ~pacman_Ql[p].ok)
    /\ [](\A w \in DOMAIN stageB :
            stageB[w].pc = "panicked" => \E x \in DOMAIN ldd : ~ldd[x].spawned)

\* C15 witness: sends of both stages have failed and the workers went on. A
\* package with two executables has none of its items sent and is held by no
\* Stage A worker, a later package has been taken; or the findings of an
\* executable were dropped by a Stage B worker that then took another item
C15_Witness ==
    \/ /\ exec_files_chan.receivers = 0
       /\ exec_files_chan.senders > 0
       /\ \E p, q \in Enumerated :
             /\ p # q
             /\ Len(Files(p)) = 2
             /\ hist[p].sent = <<>>
             /\ \A w \in DOMAIN stageA : stageA[w].package \notin {p, q}
             /\ DOMAIN stageA = {1}
    \/ /\ missing_deps_chan.receivers = 0
       /\ missing_deps_chan.queue = <<>>
       /\ \E x, y \in DOMAIN ldd :
             /\ x # y
             /\ ldd[x].success
             /\ ldd[y].success
             /\ \A w \in DOMAIN stageB : Gone(stageB[w])
       /\ \A w \in DOMAIN stageB : stageB[w].pc = "exited"

\* the Stage A workers that hold a package, the Stage B workers that hold a
\* work item
EnumeratingWorkers == {w \in DOMAIN stageA : stageA[w].pc \in {"inc", "send"}}

ProbingWorkers == {w \in DOMAIN stageB : stageB[w].pc \in {"send", "inc"}}

\* C16: Stage A has exactly min(core count, package count) workers and
\* Stage B exactly core count workers, so at most that many packages are being
\* enumerated and that many executables probed at once; no pool exists before
\* main spawns them; the queues are unbounded: a worker that stands at a send
\* can always take the step.
C16_PoolSizesBoundParallelism ==
    /\ ~PoolsSpawned => stageA = <<>> /\ stageB = <<>>
    /\ PoolsSpawned =>
        /\ Len(stageA) = Min({cpu_count, Len(aur_packages)})
        /\ Len(stageB) = cpu_count
        /\ Cardinality(EnumeratingWorkers) <= Min({cpu_count, Len(aur_packages)})
        /\ Cardinality({stageA[w].package : w \in EnumeratingWorkers})
              = Cardinality(EnumeratingWorkers)
        /\ Cardinality(ProbingWorkers) <= cpu_count
        /\ Cardinality({stageB[w].exec_filepath : w \in ProbingWorkers})
              = Cardinality(ProbingWorkers)
    /\ Running =>
        /\ \A w \in DOMAIN stageA : stageA[w].pc = "send" => ENABLED StageASend(w)
        /\ \A w \in DOMAIN stageB : stageB[w].pc = "send" => ENABLED StageBSend(w)

\* C16 witness: with two cores and two packages both Stage A workers hold a
\* package and both Stage B workers hold a work item at once
C16_Witness ==
    /\ cpu_count = 2
    /\ Len(aur_packages) = 2
    /\ Cardinality(EnumeratingWorkers) = 2
    /\ Cardinality(ProbingWorkers) = 2

\* main has put the package name on the package-name queue
Enqueued(package) == \E i \in 1..(next_package - 1) : aur_packages[i] = package

\* C17: under every interleaving each enqueued package name is received by
\* exactly one Stage A worker and each work item by exactly one Stage B
\* worker: a name or an item is either still queued or was taken once, never
\* both and never twice; when a Stage A worker has exited every listed name
\* was taken, and when a Stage B worker has exited every executable of every
\* enumerated package was probed once.
C17_EachMessageReceivedOnce ==
    /\ \A p \in AllPackageNames :
          /\ hist[p].received + CountIn(package_chan.queue, p)
                = (IF Enqueued(p) THEN 1 ELSE 0)
          /\ \A i \in 1..Len(hist[p].sent) :
                CountIn(exec_files_chan.queue, hist[p].sent[i])
                   + CountIn(hist[p].probed, hist[p].sent[i].exec_filepath) = 1
          /\ \A i \in 1..Len(hist[p].probed) :
                \E j \in 1..Len(hist[p].sent) :
                    hist[p].sent[j].exec_filepath = hist[p].probed[i]
    /\ \A i \in 1..Len(exec_files_chan.queue) :
          \E j \in 1..Len(hist[exec_files_chan.queue[i].package].sent) :
              hist[exec_files_chan.queue[i].package].sent[j] = exec_files_chan.queue[i]
    /\ (\E w \in DOMAIN stageA : stageA[w].pc = "exited") =>
          \A p \in Listed : hist[p].received = 1
    /\ (\E w \in DOMAIN stageB : stageB[w].pc = "exited") =>
          \A p \in Enumerated :
              /\ Range(hist[p].probed) = Range(Files(p))
              /\ Len(hist[p].probed) = Len(Files(p))

\* C17 witness: two workers a stage have shared two packages of two
\* executables each, all four were probed, and all workers have exited
C17_Witness ==
    /\ cpu_count = 2
    /\ Len(aur_packages) = 2
    /\ \A w \in DOMAIN stageA : stageA[w].pc = "exited"
    /\ \A w \in DOMAIN stageB : stageB[w].pc = "exited"
    /\ \A p \in Listed : hist[p].received = 1 /\ Len(hist[p].probed) = 2

\* every executable of the package has been checked by the Dependency
\* Checker and no finding of it is still to be sent
FullyProcessed(p) ==
    /\ p \in Enumerated
    /\ Range(Files(p)) \subseteq Range(hist[p].probed)
    /\ \A w \in DOMAIN stageB : stageB[w].package = p => stageB[w].pc # "send"

C19_ProgressWithinBoundsAndMonotonic ==
    /\ [](progress.pos >= 0 /\ progress.pos <= Len(aur_packages))
    /\ [][progress'.pos >= progress.pos /\ progress'.pos <= progress.pos + 1]_vars
    /\ [][mainPc = "clear" /\ mainPc' = "drain" =>
            /\ progress.pos = Len(aur_packages)
            /\ progress'.pos = Len(aur_packages)
            /\ progress'.cleared]_vars
    /\ [](mainPc = "drain" => progress.pos = Len(aur_packages))

\* C19 witness: the display of a scan of two packages has been cleared with
\* the counter at 2 and the first finding is drained
C19_Witness ==
    /\ mainPc = "drain"
    /\ progress.cleared
    /\ progress.pos = 2
    /\ Len(aur_packages) = 2
    /\ Len(stdout) = 1

\* C20: no send ever fails. In every state in which a sender of the
\* work-item queue exists a receiver of it exists too, likewise for the
\* findings queue, whose receiver the controlling thread holds until the
\* drain has ended; so every send of a worker queues its message, the
\* branches that abandon on a failed send are never taken and, in a scan
\* without fatal failure, every work item is probed and every finding
\* printed.
C20_NoSendEverFails ==
    /\ [](exec_files_chan.senders > 0 => exec_files_chan.receivers > 0)
    /\ [](missing_deps_chan.senders > 0 => missing_deps_chan.receivers > 0)
    /\ [](PoolsSpawned => missing_deps_chan.receivers = 1)
    /\ [][\A w \in DOMAIN stageA :
            stageA[w].pc = "send" /\ stageA'[w] # stageA[w] =>
                exec_files_chan'.queue =
                    Append(exec_files_chan.queue,
                           [package |-> stageA[w].package,
                            exec_filepath |-> stageA[w].exec_files[stageA[w].i + 1],
                            package_last |-> (stageA[w].i + 1 = Len(stageA[w].exec_files))])]_vars
    /\ [][\A w \in DOMAIN stageB :
            stageB[w].pc = "send" /\ stageB'[w] # stageB[w] =>
                missing_deps_chan'.queue =
                    Append(missing_deps_chan.queue,
                           <<stageB[w].package, stageB[w].exec_filepath,
                             Head(stageB[w].missing_deps)>>)]_vars
    /\ [](DrainDone =>
            /\ \A p \in Listed : Len(hist[p].probed) = Len(hist[p].sent)
            /\ Len(MissingDepLines) =
                  Cardinality(UNION {{<<x, i>> : i \in {j \in 1..Len(ldd[x].lines) :
                                        /\ ldd[x].success
                                        /\ EndsWith(ldd[x].lines[j], NotFoundMarker)}} :
                                     x \in DOMAIN ldd}))

\* C20 witness: a scan of two packages of two executables each has ended,
\* all four work items went through and the findings of all were printed
C20_Witness ==
    /\ mainPc = "exit0"
    /\ Len(aur_packages) = 2
    /\ \A p \in Listed : Len(hist[p].sent) = 2 /\ Len(hist[p].probed) = 2
    /\ \A x \in DOMAIN ldd : ldd[x].success
    /\ Len(MissingDepLines) = 8

====
